---- MODULE Spec2Model ----
(***************************************************************************)
(* A model of jupyter_core/application.py: JupyterApp's configuration      *)
(* resolution (config_file_paths, load_config_file, initialize), its       *)
(* dispatch decision (_find_subcommand, _dispatching, start), the          *)
(* default-config writer (write_default_config), the legacy migration      *)
(* trigger (migrate_config) and the launch boundary (launch_instance).     *)
(*                                                                         *)
(* Python strings are TLA+ strings; the string operators below compute     *)
(* character by character.  A traitlets Config is a function from the      *)
(* configurable fields to a set that is empty (field not assigned) or a    *)
(* singleton (the assigned value).                                         *)
(***************************************************************************)
EXTENDS Integers, Sequences, FiniteSets, TLC

VARIABLES
    name,                \* JupyterApp.name (class attribute)
    executables,         \* the executables which() can find on the search path
    subcommand,          \* JupyterApp.subcommand
    subapp,              \* Application.subapp ("" is None)
    argv,                \* Application.argv
    traits,              \* the config-tagged traits of the application
    config,              \* Application.config
    cl_config,           \* the snapshot taken in initialize()
    cwd,                 \* py3compat.getcwd()
    config_dir,          \* JupyterApp.config_dir
    provider_path,       \* what jupyter_config_path() returns
    search_path,         \* the last value read from config_file_paths
    files,               \* the file system: existing path -> content
    ipdir_exists,        \* os.path.exists(get_ipython_dir())
    calls,               \* the calls made so far, in order
    prompts,             \* number of input() prompts shown
    guidance,            \* number of "Please answer 'yes' or 'no'" messages
    answer,              \* write_default_config's local variable answer
    exc,                 \* the exception in flight ("" is none)
    pc                   \* position of the launch sequence

vars == <<name, executables, subcommand, subapp, argv, traits, config,
          cl_config, cwd, config_dir, provider_path, search_path, files,
          ipdir_exists, calls, prompts, guidance, answer, exc, pc>>

-----------------------------------------------------------------------------
(* Bounds *)

MaxPrompts == 3
MaxPathLen == 2

-----------------------------------------------------------------------------
(* Python string operations *)

StartsWith(s, p) == Len(s) >= Len(p) /\ SubSeq(s, 1, Len(p)) = p

EndsWith(s, p) == Len(s) >= Len(p) /\ SubSeq(s, Len(s) - Len(p) + 1, Len(s)) = p

\* str.replace(a, b) for a single character a
RECURSIVE Replace(_, _, _)
Replace(s, a, b) ==
    IF Len(s) = 0 THEN ""
    ELSE (IF SubSeq(s, 1, 1) = a THEN b ELSE SubSeq(s, 1, 1))
         \o Replace(SubSeq(s, 2, Len(s)), a, b)

LowerChar(c) ==
    CASE c = "Y" -> "y"
      [] c = "N" -> "n"
      [] c = "E" -> "e"
      [] c = "S" -> "s"
      [] c = "O" -> "o"
      [] c = "M" -> "m"
      [] OTHER -> c

\* str.lower()
RECURSIVE Lower(_)
Lower(s) ==
    IF Len(s) = 0 THEN ""
    ELSE LowerChar(SubSeq(s, 1, 1)) \o Lower(SubSeq(s, 2, Len(s)))

\* index of the last occurrence of character c in s, 0 if there is none
RECURSIVE RFind(_, _)
RFind(s, c) ==
    IF Len(s) = 0 THEN 0
    ELSE IF SubSeq(s, Len(s), Len(s)) = c THEN Len(s)
    ELSE RFind(SubSeq(s, 1, Len(s) - 1), c)

\* index of the first occurrence of character c in s, 0 if there is none
RECURSIVE Find(_, _)
Find(s, c) ==
    IF Len(s) = 0 THEN 0
    ELSE IF SubSeq(s, 1, 1) = c THEN 1
    ELSE LET r == Find(SubSeq(s, 2, Len(s)), c) IN IF r = 0 THEN 0 ELSE r + 1

\* str.rstrip('/')
RECURSIVE RStripSlash(_)
RStripSlash(s) ==
    IF Len(s) > 0 /\ SubSeq(s, Len(s), Len(s)) = "/"
    THEN RStripSlash(SubSeq(s, 1, Len(s) - 1))
    ELSE s

\* os.path.split: (head, tail) around the last slash
PathSplit(p) ==
    LET i == RFind(p, "/")
        head == SubSeq(p, 1, i)
        tail == SubSeq(p, i + 1, Len(p))
    IN  <<IF RStripSlash(head) = "" THEN head ELSE RStripSlash(head), tail>>

\* os.path.join of two components
PathJoin(a, b) ==
    IF StartsWith(b, "/") THEN b
    ELSE IF a = "" \/ EndsWith(a, "/") THEN a \o b
    ELSE a \o "/" \o b

Digit(c) ==
    CASE c = "0" -> 0 [] c = "1" -> 1 [] c = "2" -> 2 [] c = "3" -> 3
      [] c = "4" -> 4 [] c = "5" -> 5 [] c = "6" -> 6 [] c = "7" -> 7
      [] c = "8" -> 8 [] c = "9" -> 9

\* the integer a decimal literal denotes
RECURSIVE ParseInt(_)
ParseInt(s) ==
    IF Len(s) = 0 THEN 0
    ELSE 10 * ParseInt(SubSeq(s, 1, Len(s) - 1)) + Digit(SubSeq(s, Len(s), Len(s)))

\* x in list
InSeq(x, s) == \E i \in 1..Len(s) : s[i] = x

-----------------------------------------------------------------------------
(* Configuration objects (traitlets Config) *)

Fields == {"generate_config", "answer_yes", "config_file", "config_file_name", "log_level"}

EmptyConfig == [f \in Fields |-> {}]

Assign(f, v) == [EmptyConfig EXCEPT ![f] = {v}]

\* Config.merge: the fields other assigns replace those of cfg
Merge(cfg, other) == [f \in Fields |-> IF other[f] # {} THEN other[f] ELSE cfg[f]]

\* the traits after the config changed: every assigned field is loaded
LoadTraits(tr, cfg) ==
    [f \in Fields |-> IF cfg[f] # {} THEN CHOOSE v \in cfg[f] : TRUE ELSE tr[f]]

\* Application.update_config: merge, then reload the traits from the result
UpdateConfig(cfg, tr, new) ==
    [config |-> Merge(cfg, new), traits |-> LoadTraits(tr, Merge(cfg, new))]

-----------------------------------------------------------------------------
(* Constants of the program *)

DEBUG == 10
INFO == 20

base_config == "jupyter_config"

base_aliases == ("log-level" :> "log_level") @@ ("config" :> "config_file")

base_flags ==
    ("debug" :> Assign("log_level", DEBUG)) @@
    ("generate-config" :> Assign("generate_config", TRUE)) @@
    ("y" :> Assign("answer_yes", TRUE))

\* the embedded sub-applications the application class declares
Subcommands == {"sub"}

\* what generate_config_file() renders
DefaultConfigText == "# Configuration file for application."

-----------------------------------------------------------------------------
(* Command-line parsing (Application.parse_command_line) *)

\* the value a command-line literal denotes for a field
Literal(f, s) == IF f = "log_level" THEN ParseInt(s) ELSE s

\* the config one token contributes
ParseToken(tok) ==
    LET eq   == Find(tok, "=")
        lhs  == SubSeq(tok, 3, eq - 1)
        rhs  == SubSeq(tok, eq + 1, Len(tok))
        flag == IF StartsWith(tok, "--") THEN SubSeq(tok, 3, Len(tok))
                ELSE SubSeq(tok, 2, Len(tok))
    IN  IF StartsWith(tok, "--") /\ eq > 0
        THEN IF lhs \in DOMAIN base_aliases
             THEN Assign(base_aliases[lhs], Literal(base_aliases[lhs], rhs))
             ELSE EmptyConfig
        ELSE IF StartsWith(tok, "-") /\ flag \in DOMAIN base_flags
        THEN base_flags[flag]
        ELSE EmptyConfig

RECURSIVE ParseTokens(_)
ParseTokens(args) ==
    IF Len(args) = 0 THEN EmptyConfig
    ELSE Merge(ParseTokens(SubSeq(args, 1, Len(args) - 1)), ParseToken(args[Len(args)]))

\* parse_command_line: an embedded sub-application named by the first token
\* takes the command line over; otherwise the tokens are parsed into a config
ParseCommandLine(args) ==
    IF Len(args) > 0 /\ args[1] \in Subcommands
    THEN [subapp |-> args[1], config |-> EmptyConfig]
    ELSE [subapp |-> "", config |-> ParseTokens(args)]

-----------------------------------------------------------------------------
(* Path resolution *)

\* config_file_paths with the working directory inserted before the override
\* directory is
ConfigFilePaths_CwdInsertedFirst(provider, cdir, wd) ==
    LET path == <<wd>> \o provider
    IN  IF ~InSeq(cdir, path) THEN <<cdir>> \o path ELSE path

\* config_file_paths with the override directory inserted without the
\* membership test
ConfigFilePaths_OverrideAlwaysInserted(provider, cdir, wd) ==
    <<wd, cdir>> \o provider

\* config_file_paths with a missing override directory appended at the end
ConfigFilePaths_OverrideAppended(provider, cdir, wd) ==
    LET path == IF ~InSeq(cdir, provider) THEN Append(provider, cdir) ELSE provider
    IN  <<wd>> \o path

\* JupyterApp.config_file_paths
ConfigFilePaths(provider, cdir, wd) ==
    LET path == IF ~InSeq(cdir, provider) THEN <<cdir>> \o provider ELSE provider
    IN  <<wd>> \o path

\* JupyterApp._config_file_name_default
ConfigFileNameDefault(n) ==
    IF n = "" THEN "" ELSE Replace(n, "-", "_") \o "_config"

\* the file write_default_config() writes
DefaultConfigTarget(tr, cdir) ==
    IF tr["config_file"] # "" THEN tr["config_file"]
    ELSE PathJoin(cdir, tr["config_file_name"] \o ".py")

-----------------------------------------------------------------------------
(* Dispatch decision *)

\* shutil.which: the full path of the executable, "" if there is none
Which(cmd, execs) == IF cmd \in execs THEN "/usr/bin/" \o cmd ELSE ""

\* JupyterApp._find_subcommand
FindSubcommand(n, arg, execs) == Which(n \o "-" \o arg, execs)

\* _dispatching that forgets the generate_config flag
Dispatching_WithoutGenerateConfig(tr, sa, sc) == sa # "" \/ sc # ""

\* JupyterApp._dispatching
Dispatching(tr, sa, sc) == tr["generate_config"] \/ sa # "" \/ sc # ""

\* os.execv handed the whole of argv
ExecArgs_WholeArgv(sc, args) == <<sc>> \o args

\* the argument vector start() hands to os.execv
ExecArgs(sc, args) == <<sc>> \o SubSeq(args, 2, Len(args))

\* start() testing generate_config before subapp
StartOutcome_GenerateConfigFirst(sc, sa, gen) ==
    IF sc # "" THEN "subcommand"
    ELSE IF gen THEN "generate"
    ELSE IF sa # "" THEN "subapp"
    ELSE "continue"

\* the branch start() takes
StartOutcome(sc, sa, gen) ==
    IF sc # "" THEN "subcommand"
    ELSE IF sa # "" THEN "subapp"
    ELSE IF gen THEN "generate"
    ELSE "continue"

-----------------------------------------------------------------------------
(* Inputs *)

AppNames == {"jupyter", "my-app"}

ExecutableSets == {{}, {"jupyter-notebook", "my-app-notebook"}}

ArgvSet ==
    { <<>>,
      <<"notebook", "--port=9">>,
      <<"sub", "--debug">>,
      <<"--generate-config">>,
      <<"--generate-config", "-y">>,
      <<"--debug">>,
      <<"--log-level=50">>,
      <<"--log-level=50", "--config=/opt/conf/jupyter_config">> }

\* what a config file on disk may assign
FileConfigs ==
    { Assign("log_level", 30),
      Assign("log_level", 40),
      Assign("generate_config", TRUE),
      Assign("config_file", "/opt/conf/my_config.py") }

\* the outcomes of one call of the config loader
LoadResults ==
    { [kind |-> "notfound", cfg |-> EmptyConfig],
      [kind |-> "error", cfg |-> EmptyConfig] }
    \cup { [kind |-> "found", cfg |-> c] : c \in FileConfigs }

\* what the user may type at the overwrite prompt
Answers == {"", "No", "YES", "maybe"}

Dirs == {"/work", "/home/u/.jupyter", "/etc/jupyter", "/usr/share/jupyter"}

RECURSIVE SeqsUpTo(_, _)
SeqsUpTo(S, n) ==
    IF n = 0 THEN {<<>>}
    ELSE SeqsUpTo(S, n - 1)
         \cup {Append(q, x) : q \in {r \in SeqsUpTo(S, n - 1) : Len(r) = n - 1}, x \in S}

\* a call: its name, its string and list arguments, how it came out and, for a
\* config load, what the loaded file assigns
Call(op, nm, args, out) ==
    [op |-> op, name |-> nm, args |-> args, out |-> out, cfg |-> EmptyConfig]

CountCalls(cs, op) == Cardinality({i \in 1..Len(cs) : cs[i].op = op})

-----------------------------------------------------------------------------
(* Legacy migration trigger *)

\* the migration routine: it records that it ran by writing the marker
Migrate(fs, cdir) == (PathJoin(cdir, "migrated") :> "") @@ fs

\* a migration trigger that does not look for the marker
MigrateConfig_IgnoringMarker(fs, cdir, ipd, m) ==
    IF ~ipd
    THEN [files |-> fs, calls |-> <<>>, exc |-> ""]
    ELSE IF m = "ok"
    THEN [files |-> Migrate(fs, cdir),
          calls |-> <<Call("migrate", "", <<>>, "ok")>>, exc |-> ""]
    ELSE [files |-> fs,
          calls |-> <<Call("migrate", "", <<>>, "raise")>>, exc |-> "Exception"]

\* JupyterApp.migrate_config; m is what migrate() does when it is invoked
MigrateConfig(fs, cdir, ipd, m) ==
    IF PathJoin(cdir, "migrated") \in DOMAIN fs
    THEN [files |-> fs, calls |-> <<>>, exc |-> ""]
    ELSE IF ~ipd
    THEN [files |-> fs, calls |-> <<>>, exc |-> ""]
    ELSE IF m = "ok"
    THEN [files |-> Migrate(fs, cdir),
          calls |-> <<Call("migrate", "", <<>>, "ok")>>, exc |-> ""]
    ELSE [files |-> fs,
          calls |-> <<Call("migrate", "", <<>>, "raise")>>, exc |-> "Exception"]

-----------------------------------------------------------------------------
(* Config file loading *)

\* the app-specific source skipped for an empty name only
AppSource_SkipOnlyEmptyName(tr, paths) ==
    IF tr["config_file"] # ""
    THEN [path |-> <<PathSplit(tr["config_file"])[1]>>,
          name |-> PathSplit(tr["config_file"])[2],
          skip |-> FALSE]
    ELSE [path |-> paths,
          name |-> tr["config_file_name"],
          skip |-> tr["config_file_name"] = ""]

\* an app-specific source that takes only the file name from an explicit
\* path and still searches the whole search path
AppSource_ExplicitOnSearchPath(tr, paths) ==
    IF tr["config_file"] # ""
    THEN [path |-> paths,
          name |-> PathSplit(tr["config_file"])[2],
          skip |-> FALSE]
    ELSE [path |-> paths,
          name |-> tr["config_file_name"],
          skip |-> tr["config_file_name"] = ""
                   \/ tr["config_file_name"] = base_config]

\* the (path, name) the app-specific load uses, and whether it is skipped
AppSource(tr, paths) ==
    IF tr["config_file"] # ""
    THEN [path |-> <<PathSplit(tr["config_file"])[1]>>,
          name |-> PathSplit(tr["config_file"])[2],
          skip |-> FALSE]
    ELSE [path |-> paths,
          name |-> tr["config_file_name"],
          skip |-> tr["config_file_name"] = "" \/ tr["config_file_name"] = base_config]

\* a load step that lets every load error propagate
LoadStep_AlwaysRaises(cfg, tr, nm, path, res, reraise) ==
    LET u == UpdateConfig(cfg, tr, res.cfg)
    IN  [config |-> IF res.kind = "found" THEN u.config ELSE cfg,
         traits |-> IF res.kind = "found" THEN u.traits ELSE tr,
         calls  |-> <<[Call("Application.load_config_file", nm, path, res.kind)
                          EXCEPT !.cfg = res.cfg]>>,
         exc    |-> IF res.kind = "error" THEN "Exception" ELSE ""]

\* one call of Application.load_config_file followed by its except clauses:
\* res is what the loader does, reraise tells whether a load error propagates
LoadStep(cfg, tr, nm, path, res, reraise) ==
    LET u == UpdateConfig(cfg, tr, res.cfg)
    IN  [config |-> IF res.kind = "found" THEN u.config ELSE cfg,
         traits |-> IF res.kind = "found" THEN u.traits ELSE tr,
         calls  |-> <<[Call("Application.load_config_file", nm, path, res.kind)
                          EXCEPT !.cfg = res.cfg]>>
                    \o IF res.kind = "error" /\ ~reraise
                       THEN <<Call("log.warn", nm, <<>>, "")>> ELSE <<>>,
         exc    |-> IF res.kind = "error" /\ reraise THEN "Exception" ELSE ""]

\* load_config_file with the app-specific source applied under the base one
LoadConfigFile_AppFirst(cfg, tr, paths, b, a, suppress_errors) ==
    LET enter == [Call("load_config_file", "", <<>>,
                       IF suppress_errors THEN "True" ELSE "False")
                  EXCEPT !.cfg = cfg]
        src   == AppSource(tr, paths)
        app   == LoadStep(cfg, tr, src.name, src.path, a, ~suppress_errors)
        base  == LoadStep(IF src.skip THEN cfg ELSE app.config,
                          IF src.skip THEN tr ELSE app.traits,
                          base_config, paths, b, TRUE)
    IN  IF src.skip THEN [base EXCEPT !.calls = <<enter>> \o base.calls]
        ELSE [base EXCEPT !.calls = <<enter>> \o base.calls \o app.calls,
                          !.exc = IF base.exc # "" THEN base.exc ELSE app.exc]

\* JupyterApp.load_config_file; b and a are what the loader does for the base
\* and for the app-specific source.  The first call logged is the method's own
\* entry, with suppress_errors and the config it starts from.
LoadConfigFile(cfg, tr, paths, b, a, suppress_errors) ==
    LET enter == [Call("load_config_file", "", <<>>,
                       IF suppress_errors THEN "True" ELSE "False")
                  EXCEPT !.cfg = cfg]
        base  == LoadStep(cfg, tr, base_config, paths, b, TRUE)
        src   == AppSource(base.traits, paths)
        app   == LoadStep(base.config, base.traits, src.name, src.path, a,
                          ~suppress_errors)
    IN  IF base.exc # "" THEN [base EXCEPT !.calls = <<enter>> \o base.calls]
        ELSE IF src.skip THEN [base EXCEPT !.calls = <<enter>> \o base.calls]
        ELSE [app EXCEPT !.calls = <<enter>> \o base.calls \o app.calls]

-----------------------------------------------------------------------------
(* Initial state: the application as constructed, and its environment *)

DefaultTraits(n) ==
    [f \in Fields |->
        CASE f = "generate_config"  -> FALSE
          [] f = "answer_yes"       -> FALSE
          [] f = "config_file"      -> ""
          [] f = "config_file_name" -> ConfigFileNameDefault(n)
          [] f = "log_level"        -> INFO]

\* the files write_default_config() may find in its way
TargetFiles(n, cdir) ==
    { PathJoin(cdir, ConfigFileNameDefault(n) \o ".py"), "/opt/conf/jupyter_config" }

Init ==
    /\ name \in AppNames
    /\ executables \in ExecutableSets
    /\ subcommand \in {"", "/opt/bin/preset"}
    /\ subapp = ""
    /\ argv = <<>>
    /\ config \in {EmptyConfig, Assign("generate_config", TRUE)}
    /\ traits = LoadTraits(DefaultTraits(name), config)
    /\ cl_config = EmptyConfig
    /\ cwd = "/work"
    /\ config_dir = "/home/u/.jupyter"
    /\ provider_path = <<"/home/u/.jupyter", "/etc/jupyter">>
    /\ search_path = <<>>
    /\ \E targets \in {{}, TargetFiles(name, config_dir)},
          marker \in {{}, {PathJoin(config_dir, "migrated")}} :
          files = [p \in targets \cup marker |-> IF p \in marker THEN "" ELSE "old"]
    /\ ipdir_exists \in BOOLEAN
    /\ calls = <<>>
    /\ prompts = 0
    /\ guidance = 0
    /\ answer = ""
    /\ exc = ""
    /\ pc = "constructed"

-----------------------------------------------------------------------------
(* JupyterApp.initialize *)

\* initialize without its last line
EnforceClConfig_Omitted(cfg, tr, cl) == [config |-> cfg, traits |-> tr]

\* line 240: the command-line snapshot is applied over what the files set
EnforceClConfig(cfg, tr, cl) == UpdateConfig(cfg, tr, cl)

\* lines 227-228: the external subcommand the first token names, "" if none
InitSubcommand(args) ==
    IF Len(args) > 0 THEN FindSubcommand(name, args[1], executables) ELSE ""

\* lines 233-235: the application after parse_command_line(args), the
\* snapshot copy and the evaluation of _dispatching
AfterParse(args) ==
    LET p    == ParseCommandLine(args)
        u    == UpdateConfig(config, traits, p.config)
        disp == Dispatching(u.traits, p.subapp, subcommand)
    IN  [subcommand |-> subcommand, subapp |-> p.subapp, argv |-> args,
         traits |-> u.traits, config |-> u.config, cl_config |-> u.config,
         search_path |-> search_path, files |-> files,
         calls |-> calls \o <<Call("parse_command_line", "", args, ""),
                              Call("_dispatching", "", <<>>,
                                   IF disp THEN "True" ELSE "False")>>,
         exc |-> "", pc |-> "initialized", dispatching |-> disp]

\* lines 237-240 with the config files loaded before the migration trigger
AfterResolve_LoadBeforeMigrate(r1, m, b, a) ==
    LET sp == ConfigFilePaths(provider_path, config_dir, cwd)
        ld == LoadConfigFile(r1.config, r1.traits, sp, b, a, TRUE)
        r2 == [r1 EXCEPT !.config = ld.config, !.traits = ld.traits,
                         !.search_path = sp,
                         !.calls = r1.calls \o ld.calls]
        mg == MigrateConfig(r1.files, config_dir, ipdir_exists, m)
        r3 == [r2 EXCEPT !.files = mg.files,
                         !.calls = r2.calls \o <<Call("migrate_config", "", <<>>, "")>>
                                   \o mg.calls]
        e  == EnforceClConfig(ld.config, ld.traits, r1.cl_config)
        r4 == [r3 EXCEPT !.config = e.config, !.traits = e.traits,
                         !.calls = Append(r3.calls,
                             [Call("update_config", "", <<>>, "")
                                 EXCEPT !.cfg = r1.cl_config])]
    IN  IF ld.exc # "" THEN [r2 EXCEPT !.exc = ld.exc, !.pc = "failed"]
        ELSE IF mg.exc # "" THEN [r3 EXCEPT !.exc = mg.exc, !.pc = "failed"]
        ELSE r4

\* lines 237-240: migration, config files, command-line snapshot; m, b and a
\* are what migrate() and the two config loads do if they are reached
AfterResolve(r1, m, b, a) ==
    LET mg == MigrateConfig(r1.files, config_dir, ipdir_exists, m)
        r2 == [r1 EXCEPT !.files = mg.files,
                         !.calls = r1.calls \o <<Call("migrate_config", "", <<>>, "")>>
                                   \o mg.calls]
        sp == ConfigFilePaths(provider_path, config_dir, cwd)
        ld == LoadConfigFile(r1.config, r1.traits, sp, b, a, TRUE)
        r3 == [r2 EXCEPT !.config = ld.config, !.traits = ld.traits,
                         !.search_path = sp,
                         !.calls = r2.calls \o ld.calls]
        e  == EnforceClConfig(ld.config, ld.traits, r1.cl_config)
        r4 == [r3 EXCEPT !.config = e.config, !.traits = e.traits,
                         !.calls = Append(r3.calls,
                             [Call("update_config", "", <<>>, "")
                                 EXCEPT !.cfg = r1.cl_config])]
    IN  IF mg.exc # "" THEN [r2 EXCEPT !.exc = mg.exc, !.pc = "failed"]
        ELSE IF ld.exc # "" THEN [r3 EXCEPT !.exc = ld.exc, !.pc = "failed"]
        ELSE r4

\* initialize(args) when the first token names an external subcommand
InitializeSubcommand(args) ==
    /\ pc = "constructed"
    /\ InitSubcommand(args) # ""
    /\ argv' = args
    /\ subcommand' = InitSubcommand(args)
    /\ pc' = "initialized"
    /\ UNCHANGED <<name, executables, subapp, traits, config, cl_config, cwd,
                   config_dir, provider_path, search_path, files, ipdir_exists,
                   calls, prompts, guidance, answer, exc>>

\* initialize(args) when the application dispatches after parsing
InitializeDispatching(args) ==
    /\ pc = "constructed"
    /\ InitSubcommand(args) = ""
    /\ LET r == AfterParse(args)
       IN  /\ r.dispatching
           /\ subapp' = r.subapp
           /\ argv' = r.argv
           /\ traits' = r.traits
           /\ config' = r.config
           /\ cl_config' = r.cl_config
           /\ calls' = r.calls
    /\ pc' = "initialized"
    /\ UNCHANGED <<name, executables, subcommand, cwd, config_dir, provider_path,
                   search_path, files, ipdir_exists, prompts, guidance, answer, exc>>

\* initialize(args) when the application continues as the primary one
InitializePrimary(args) ==
    /\ pc = "constructed"
    /\ InitSubcommand(args) = ""
    /\ LET r1 == AfterParse(args)
       IN  /\ ~r1.dispatching
           /\ \E m \in {"ok", "raise"}, b \in LoadResults, a \in LoadResults :
                LET r == AfterResolve(r1, m, b, a)
                IN  /\ subapp' = r.subapp
                    /\ argv' = r.argv
                    /\ traits' = r.traits
                    /\ config' = r.config
                    /\ cl_config' = r.cl_config
                    /\ search_path' = r.search_path
                    /\ files' = r.files
                    /\ calls' = r.calls
                    /\ exc' = r.exc
                    /\ pc' = r.pc
    /\ UNCHANGED <<name, executables, subcommand, cwd, config_dir, provider_path,
                   ipdir_exists, prompts, guidance, answer>>

\* load_config_file(suppress_errors) called directly on the constructed
\* application, as the tests do
LoadConfigFileCall(suppress_errors, b, a) ==
    /\ pc = "constructed"
    /\ LET sp == ConfigFilePaths(provider_path, config_dir, cwd)
           ld == LoadConfigFile(config, traits, sp, b, a, suppress_errors)
       IN  /\ config' = ld.config
           /\ traits' = ld.traits
           /\ search_path' = sp
           /\ calls' = calls \o ld.calls
           /\ exc' = ld.exc
    /\ pc' = "loaded"
    /\ UNCHANGED <<name, executables, subcommand, subapp, argv, cl_config, cwd,
                   config_dir, provider_path, files, ipdir_exists, prompts,
                   guidance, answer>>

-----------------------------------------------------------------------------
(* JupyterApp.start and JupyterApp.write_default_config *)

\* lines 142-148: render the default config and write it to the target
WriteConfig(fs, target) == (target :> DefaultConfigText) @@ fs

WriteCalls(target) ==
    <<Call("generate_config_file", "", <<>>, ""), Call("write", target, <<>>, "")>>

\* the confirmation asked for even with answer_yes set
NeedsConfirm_IgnoringAnswerYes(fs, target, yes) == target \in DOMAIN fs

\* line 126: whether the overwrite has to be confirmed
NeedsConfirm(fs, target, yes) == target \in DOMAIN fs /\ ~yes

\* ask() without the default of 'n' for an empty line
AskResult_WithoutDefault(typed) == Lower(typed)

\* line 131: the answer ask() returns for what the user typed
AskResult(typed) == IF Lower(typed) = "" THEN "n" ELSE Lower(typed)

IsYes(ans) == StartsWith(ans, "y")

\* a loop that takes only the single letter for a refusal
IsNo_ExactMatch(ans) == ans = "n"

IsNo(ans) == StartsWith(ans, "n")

StartSubcommand ==
    /\ pc = "initialized"
    /\ StartOutcome(subcommand, subapp, traits["generate_config"]) = "subcommand"
    /\ calls' = Append(calls, Call("execv", subcommand, ExecArgs(subcommand, argv), ""))
    /\ pc' = "execed"
    /\ UNCHANGED <<name, executables, subcommand, subapp, argv, traits, config,
                   cl_config, cwd, config_dir, provider_path, search_path, files,
                   ipdir_exists, prompts, guidance, answer, exc>>

\* the sub-application's start() returns or raises NoStart itself
StartSubapp(how) ==
    /\ pc = "initialized"
    /\ StartOutcome(subcommand, subapp, traits["generate_config"]) = "subapp"
    /\ calls' = Append(calls, Call("subapp.start", subapp, <<>>, how))
    /\ exc' = "NoStart"
    /\ pc' = "raised"
    /\ UNCHANGED <<name, executables, subcommand, subapp, argv, traits, config,
                   cl_config, cwd, config_dir, provider_path, search_path, files,
                   ipdir_exists, prompts, guidance, answer>>

StartGenerateConfig ==
    /\ pc = "initialized"
    /\ StartOutcome(subcommand, subapp, traits["generate_config"]) = "generate"
    /\ LET target == DefaultConfigTarget(traits, config_dir)
           enter  == Call("write_default_config", target, <<>>,
                          IF target \in DOMAIN files THEN "exists" ELSE "absent")
       IN  IF NeedsConfirm(files, target, traits["answer_yes"])
           THEN /\ calls' = Append(calls, enter)
                /\ pc' = "prompting"
                /\ UNCHANGED <<files, exc>>
           ELSE /\ calls' = Append(calls, enter) \o WriteCalls(target)
                /\ files' = WriteConfig(files, target)
                /\ exc' = "NoStart"
                /\ pc' = "raised"
    /\ UNCHANGED <<name, executables, subcommand, subapp, argv, traits, config,
                   cl_config, cwd, config_dir, provider_path, search_path,
                   ipdir_exists, prompts, guidance, answer>>

StartContinue ==
    /\ pc = "initialized"
    /\ StartOutcome(subcommand, subapp, traits["generate_config"]) = "continue"
    /\ pc' = "started"
    /\ UNCHANGED <<name, executables, subcommand, subapp, argv, traits, config,
                   cl_config, cwd, config_dir, provider_path, search_path, files,
                   ipdir_exists, calls, prompts, guidance, answer, exc>>

\* lines 136-148: what write_default_config does with the answer ask()
\* returned; a round that ends the loop raises NoStart out of start()
Answered(ans, asked) ==
    LET target == DefaultConfigTarget(traits, config_dir)
    IN  /\ answer' = ans
        /\ prompts' = prompts + 1
        /\ IF IsYes(ans)
           THEN /\ calls' = Append(calls, asked) \o WriteCalls(target)
                /\ files' = WriteConfig(files, target)
                /\ exc' = "NoStart"
                /\ pc' = "raised"
                /\ UNCHANGED guidance
           ELSE IF IsNo(ans)
           THEN /\ calls' = Append(calls, asked)
                /\ exc' = "NoStart"
                /\ pc' = "raised"
                /\ UNCHANGED <<files, guidance>>
           ELSE /\ calls' = Append(calls, asked)
                /\ guidance' = guidance + 1
                /\ UNCHANGED <<files, exc, pc>>

\* one round of the prompt loop: the user types a line
Ask(typed) ==
    /\ pc = "prompting"
    /\ prompts < MaxPrompts
    /\ IsYes(AskResult(typed)) \/ IsNo(AskResult(typed)) \/ prompts + 1 < MaxPrompts
    /\ Answered(AskResult(typed), Call("input", "", <<>>, typed))
    /\ UNCHANGED <<name, executables, subcommand, subapp, argv, traits, config,
                   cl_config, cwd, config_dir, provider_path, search_path,
                   ipdir_exists>>

\* one round of the prompt loop: the user interrupts the prompt
AskInterrupted ==
    /\ pc = "prompting"
    /\ prompts < MaxPrompts
    /\ Answered("n", Call("input", "KeyboardInterrupt", <<>>, ""))
    /\ UNCHANGED <<name, executables, subcommand, subapp, argv, traits, config,
                   cl_config, cwd, config_dir, provider_path, search_path,
                   ipdir_exists>>

-----------------------------------------------------------------------------
(* JupyterApp.launch_instance *)

\* launch_instance without its except clause
LaunchCatches_Nothing(e) == FALSE

\* line 262: the exceptions launch_instance catches
LaunchCatches(e) == e = "NoStart"

LaunchInstanceExcept ==
    /\ pc = "raised"
    /\ IF LaunchCatches(exc)
       THEN /\ pc' = "returned"
            /\ exc' = ""
            /\ calls' = Append(calls, Call("except", exc, <<>>, "return"))
       ELSE /\ pc' = "failed"
            /\ UNCHANGED <<exc, calls>>
    /\ UNCHANGED <<name, executables, subcommand, subapp, argv, traits, config,
                   cl_config, cwd, config_dir, provider_path, search_path, files,
                   ipdir_exists, prompts, guidance, answer>>

LaunchInstanceReturn ==
    /\ pc = "started"
    /\ pc' = "returned"
    /\ UNCHANGED <<name, executables, subcommand, subapp, argv, traits, config,
                   cl_config, cwd, config_dir, provider_path, search_path, files,
                   ipdir_exists, calls, prompts, guidance, answer, exc>>

-----------------------------------------------------------------------------

Next ==
    \/ \E args \in ArgvSet : InitializeSubcommand(args)
    \/ \E args \in ArgvSet : InitializeDispatching(args)
    \/ \E args \in ArgvSet : InitializePrimary(args)
    \/ \E s \in BOOLEAN, b \in LoadResults, a \in LoadResults :
          LoadConfigFileCall(s, b, a)
    \/ StartSubcommand
    \/ \E how \in {"return", "NoStart"} : StartSubapp(how)
    \/ StartGenerateConfig
    \/ StartContinue
    \/ \E typed \in Answers : Ask(typed)
    \/ AskInterrupted
    \/ LaunchInstanceExcept
    \/ LaunchInstanceReturn

Spec == Init /\ [][Next]_vars

\* one round of the prompt loop, however the prompt is answered
PromptRound == (\E typed \in Answers : Ask(typed)) \/ AskInterrupted

\* the runs in which a pending prompt gets its answer: input() at line 130
\* returns, or is interrupted, once the user has reacted, and lines 131-140
\* follow without waiting for anything else
SpecFair == Spec /\ WF_vars(PromptRound)

-----------------------------------------------------------------------------
(* The path resolver on its own: config_file_paths read for every provider
   path, override directory and working directory within the bounds *)

InitPaths ==
    /\ name = "jupyter"
    /\ executables = {}
    /\ subcommand = ""
    /\ subapp = ""
    /\ argv = <<>>
    /\ config = EmptyConfig
    /\ traits = DefaultTraits(name)
    /\ cl_config = EmptyConfig
    /\ cwd \in Dirs
    /\ config_dir \in Dirs
    /\ provider_path \in SeqsUpTo(Dirs, MaxPathLen)
    /\ search_path = <<>>
    /\ files = <<>>
    /\ ipdir_exists = FALSE
    /\ calls = <<>>
    /\ prompts = 0
    /\ guidance = 0
    /\ answer = ""
    /\ exc = ""
    /\ pc = "constructed"

\* the property config_file_paths is read
ReadConfigFilePaths ==
    /\ pc = "constructed"
    /\ search_path' = ConfigFilePaths(provider_path, config_dir, cwd)
    /\ pc' = "paths_read"
    /\ UNCHANGED <<name, executables, subcommand, subapp, argv, traits, config,
                   cl_config, cwd, config_dir, provider_path, files,
                   ipdir_exists, calls, prompts, guidance, answer, exc>>

NextPaths == ReadConfigFilePaths

SpecPaths == InitPaths /\ [][NextPaths]_vars

-----------------------------------------------------------------------------
(* Properties *)

\* the calls of the config loader made so far
LoadCalls == SelectSeq(calls, LAMBDA c : c.op = "Application.load_config_file")

\* the entries into JupyterApp.load_config_file made so far
LoadEntries == SelectSeq(calls, LAMBDA c : c.op = "load_config_file")

\* initialize() ran to its last line on the continue-as-primary path
Resolved == CountCalls(calls, "update_config") = 1

\* load_config_file() ran and returned without raising
LoadDone == Resolved \/ (pc = "loaded" /\ exc = "")

\* the loader call c found a source that assigns field f
Assigned(c, f) == c.out = "found" /\ c.cfg[f] # {}

\* C1: after initialize() on the continue-as-primary path every field the
\* command line set has, in the effective config and in the trait loaded from
\* it, exactly its command-line value, whatever the base and the app-specific
\* config files assign.
OverrideSupremacy ==
    Resolved =>
        \A f \in Fields :
            ParseTokens(argv)[f] # {} =>
                /\ config[f] = ParseTokens(argv)[f]
                /\ traits[f] \in ParseTokens(argv)[f]

\* C1 happens: base file 30, app file 40, command line 50 gives 50
OverrideSupremacyWitness ==
    /\ Resolved
    /\ argv = <<"--log-level=50">>
    /\ Len(LoadCalls) = 2
    /\ LoadCalls[1].cfg["log_level"] = {30}
    /\ LoadCalls[2].cfg["log_level"] = {40}
    /\ config["log_level"] = {50}
    /\ traits["log_level"] = 50

\* C2: when load_config_file() returns, a field the command line did not set
\* has the value of the app-specific source if that source was loaded and
\* assigns it, else the value of the base source if that one was loaded and
\* assigns it, else the value it had on entry; the base source is the first
\* one loaded.
BaseBeforeApp ==
    LoadDone =>
        /\ Len(LoadCalls) \in {1, 2}
        /\ LoadCalls[1].name = base_config
        /\ \A f \in Fields :
              cl_config[f] = {} =>
                  config[f] =
                      IF Len(LoadCalls) = 2 /\ Assigned(LoadCalls[2], f)
                      THEN LoadCalls[2].cfg[f]
                      ELSE IF Assigned(LoadCalls[1], f)
                      THEN LoadCalls[1].cfg[f]
                      ELSE LoadEntries[1].cfg[f]

\* C2 happens: both sources assign the same field differently, the app wins
BaseBeforeAppWitness ==
    /\ LoadDone
    /\ Len(LoadCalls) = 2
    /\ LoadCalls[1].cfg["log_level"] = {40}
    /\ LoadCalls[2].cfg["log_level"] = {30}
    /\ cl_config["log_level"] = {}
    /\ config["log_level"] = {30}

\* C3: whatever the provider path (the empty one included) and config_dir,
\* the first element of config_file_paths is the working directory.
CwdFirst ==
    pc = "paths_read" => Len(search_path) >= 1 /\ search_path[1] = cwd

\* C3 happens: the property is read with an empty provider path and an
\* override directory that is not the working directory
CwdFirstWitness ==
    /\ pc = "paths_read"
    /\ provider_path = <<>>
    /\ config_dir # cwd
    /\ search_path = <<cwd, config_dir>>

\* the number of calls of one kind made so far
Parsed == CountCalls(calls, "parse_command_line")
MigrateConfigCalls == CountCalls(calls, "migrate_config")
LoadConfigFileCalls == CountCalls(calls, "load_config_file")
ExecCalls == CountCalls(calls, "execv")
SubappStarts == CountCalls(calls, "subapp.start")
WriteDefaultConfigCalls == CountCalls(calls, "write_default_config")

\* C4: if, after parse_command_line, generate_config is set or a subapp has
\* been selected or a subcommand is designated, initialize() returns having
\* called neither migrate_config nor load_config_file nor the config loader.
DispatchingSkipsResolution ==
    (/\ Parsed = 1
     /\ \/ cl_config["generate_config"] = {TRUE}
        \/ subapp # ""
        \/ subcommand # "")
    => /\ pc \notin {"constructed", "failed"}
       /\ MigrateConfigCalls = 0
       /\ LoadConfigFileCalls = 0
       /\ Len(LoadCalls) = 0

\* C4 happens: --generate-config alone makes initialize() return after parsing
DispatchingSkipsResolutionWitness ==
    /\ pc = "initialized"
    /\ argv = <<"--generate-config">>
    /\ Parsed = 1
    /\ traits["generate_config"]
    /\ subapp = ""
    /\ subcommand = ""
    /\ MigrateConfigCalls = 0
    /\ LoadConfigFileCalls = 0

\* C5: if argv is non-empty and an executable named <name>-<argv[0]> is on the
\* search path, initialize() calls neither parse_command_line nor
\* migrate_config nor load_config_file, and the only thing start() does is to
\* replace the process with that executable, passing it argv[1:] unchanged.
ExternalSubcommandShortCircuit ==
    (/\ pc \notin {"constructed", "loaded"}
     /\ Len(argv) > 0
     /\ (name \o "-" \o argv[1]) \in executables)
    => /\ Parsed = 0
       /\ MigrateConfigCalls = 0
       /\ LoadConfigFileCalls = 0
       /\ pc \in {"initialized", "execed"}
       /\ pc = "initialized" => calls = <<>>
       /\ pc = "execed" =>
             LET found == "/usr/bin/" \o name \o "-" \o argv[1]
             IN  calls = <<Call("execv", found, <<found>> \o Tail(argv), "")>>

\* C5 happens: jupyter with ['notebook', '--port=9'] runs jupyter-notebook
\* with ['--port=9']
ExternalSubcommandShortCircuitWitness ==
    /\ pc = "execed"
    /\ name = "jupyter"
    /\ argv = <<"notebook", "--port=9">>
    /\ calls[Len(calls)].op = "execv"
    /\ calls[Len(calls)].name = "/usr/bin/jupyter-notebook"
    /\ calls[Len(calls)].args = <<"/usr/bin/jupyter-notebook", "--port=9">>

\* C6: once start() has acted, exactly the action of the highest-priority
\* outcome that is set has been performed, once, and no other: the exec if a
\* subcommand is set, else the sub-application's start if a subapp is set, else
\* write_default_config if generate_config is set, else none of them.
StartPriority ==
    pc \in {"execed", "raised", "prompting", "started", "returned"} =>
        /\ ExecCalls = IF subcommand # "" THEN 1 ELSE 0
        /\ SubappStarts = IF subcommand = "" /\ subapp # "" THEN 1 ELSE 0
        /\ WriteDefaultConfigCalls =
              IF subcommand = "" /\ subapp = "" /\ traits["generate_config"]
              THEN 1 ELSE 0
        /\ (pc = "execed") = (subcommand # "")
        /\ (pc = "started") => ExecCalls + SubappStarts + WriteDefaultConfigCalls = 0

\* C6 happens: a subapp is selected and generate_config is set; the subapp is
\* started and write_default_config is not called
StartPriorityWitness ==
    /\ pc = "returned"
    /\ subapp # ""
    /\ traits["generate_config"]
    /\ SubappStarts = 1
    /\ WriteDefaultConfigCalls = 0

\* the NoStart exceptions launch_instance caught
Caught == SelectSeq(calls, LAMBDA c : c.op = "except")

\* the prompts answered so far
Inputs == SelectSeq(calls, LAMBDA c : c.op = "input")

\* the entries into write_default_config
WriteEntries == SelectSeq(calls, LAMBDA c : c.op = "write_default_config")

\* C7 as stated: every run that ends in a subcommand handoff, a
\* sub-application handoff or default-config generation raises NoStart, which
\* launch_instance catches.
NoStartRaisedOnEveryHandoff ==
    (/\ pc \in {"execed", "raised", "returned"}
     /\ ExecCalls + SubappStarts + WriteDefaultConfigCalls = 1)
    => \/ pc = "raised" /\ exc = "NoStart"
       \/ pc = "returned" /\ Len(Caught) = 1

\* C7, amended: a sub-application handoff and default-config generation raise
\* NoStart, which launch_instance catches before it returns normally; the
\* continue-as-primary outcome returns without NoStart; a subcommand handoff
\* replaces the process, so that nothing is raised after it; and no launch
\* fails with NoStart or after one of these outcomes.
NoStartNeverSurfaces ==
    /\ pc = "raised" =>
          /\ exc = "NoStart"
          /\ SubappStarts + WriteDefaultConfigCalls = 1
          /\ ExecCalls = 0
    /\ pc = "returned" =>
          /\ exc = ""
          /\ ExecCalls = 0
          /\ Len(Caught) = SubappStarts + WriteDefaultConfigCalls
          /\ \A i \in 1..Len(Caught) : Caught[i].name = "NoStart"
    /\ pc = "started" =>
          /\ exc = ""
          /\ ExecCalls + SubappStarts + WriteDefaultConfigCalls = 0
    /\ pc = "execed" =>
          /\ exc = ""
          /\ Len(Caught) = 0
          /\ SubappStarts + WriteDefaultConfigCalls = 0
    /\ pc = "failed" =>
          /\ exc # "NoStart"
          /\ ExecCalls + SubappStarts + WriteDefaultConfigCalls = 0

\* C7 happens: default-config generation raised NoStart and launch_instance
\* caught it and returned
NoStartNeverSurfacesWitness ==
    /\ pc = "returned"
    /\ WriteDefaultConfigCalls = 1
    /\ Len(Caught) = 1
    /\ Caught[1].name = "NoStart"
    /\ exc = ""

\* C8: when write_default_config() runs with answer_yes set and the target
\* file existing, no prompt is shown, the target holds the rendered default
\* config, and the run ends in NoStart caught by launch_instance.
AnswerYesOverwrites ==
    (/\ WriteDefaultConfigCalls = 1
     /\ traits["answer_yes"]
     /\ WriteEntries[1].out = "exists")
    => /\ prompts = 0
       /\ Len(Inputs) = 0
       /\ pc \in {"raised", "returned"}
       /\ pc = "raised" => exc = "NoStart"
       /\ pc = "returned" => exc = "" /\ Len(Caught) = 1
       /\ WriteEntries[1].name \in DOMAIN files
       /\ files[WriteEntries[1].name] = DefaultConfigText
       /\ CountCalls(calls, "write") = 1

\* C8 happens: ['--generate-config', '-y'] over an existing file
AnswerYesOverwritesWitness ==
    /\ pc = "returned"
    /\ argv = <<"--generate-config", "-y">>
    /\ WriteDefaultConfigCalls = 1
    /\ WriteEntries[1].out = "exists"
    /\ prompts = 0
    /\ files[WriteEntries[1].name] = DefaultConfigText

\* the prompt c was declined: interrupted, an empty line, or a line whose
\* first letter is n or N
Declined(c) ==
    \/ c.name = "KeyboardInterrupt"
    \/ c.out = ""
    \/ SubSeq(c.out, 1, 1) \in {"n", "N"}

\* C9: once the overwrite prompt has been declined, write_default_config()
\* has returned without rendering or writing, the target still holds what it
\* held, and the run ends in NoStart caught by launch_instance, not in an
\* error.
DeclinedOverwriteKeepsFile ==
    (Len(Inputs) > 0 /\ Declined(Inputs[Len(Inputs)]))
    => /\ pc \in {"raised", "returned"}
       /\ pc = "raised" => exc = "NoStart"
       /\ pc = "returned" => exc = "" /\ Len(Caught) = 1
       /\ CountCalls(calls, "generate_config_file") = 0
       /\ CountCalls(calls, "write") = 0
       /\ WriteEntries[1].name \in DOMAIN files
       /\ files[WriteEntries[1].name] = "old"

\* C9 happens: ['--generate-config'], the file exists, the user types No
DeclinedOverwriteKeepsFileWitness ==
    /\ pc = "returned"
    /\ argv = <<"--generate-config">>
    /\ ~traits["answer_yes"]
    /\ WriteEntries[1].out = "exists"
    /\ Len(Inputs) = 1
    /\ Inputs[1].out = "No"
    /\ files[WriteEntries[1].name] = "old"

\* C10 as stated: the config loader is never invoked a second time under the
\* base name 'jupyter_config'.
AppStepSkippedWheneverNameIsBase ==
    \A i \in 2..Len(LoadCalls) : LoadCalls[i].name # base_config

\* C10, amended: when no explicit config_file path is set and the
\* app-specific name config_file_name is 'jupyter_config', load_config_file()
\* invokes the config loader exactly once, for the base source.
AppStepSkippedForBaseName ==
    (/\ LoadConfigFileCalls = 1
     /\ traits["config_file"] = ""
     /\ traits["config_file_name"] = base_config)
    => /\ Len(LoadCalls) = 1
       /\ LoadCalls[1].name = base_config

\* C10 happens: the application named jupyter resolves to 'jupyter_config'
\* and its load_config_file() returns after one load
AppStepSkippedForBaseNameWitness ==
    /\ LoadDone
    /\ name = "jupyter"
    /\ traits["config_file"] = ""
    /\ traits["config_file_name"] = base_config
    /\ Len(LoadCalls) = 1
    /\ LoadCalls[1].out = "found"

\* the warnings logged so far
Warnings == SelectSeq(calls, LAMBDA c : c.op = "log.warn")

\* C11 as stated: a base source that is found but fails to load never makes
\* load_config_file() raise, and the app-specific step follows unless it is
\* skipped for its name.
BaseErrorSuppressed ==
    (Len(LoadCalls) >= 1 /\ LoadCalls[1].out = "error")
    => /\ exc = ""
       /\ pc # "failed"

\* C12: when the app-specific load is reached and its source fails to load,
\* load_config_file() logs a warning and returns normally if suppress_errors
\* is True, and raises the error to its caller if suppress_errors is False;
\* an app-specific source that is not found raises nothing and logs no
\* warning in either mode.
AppErrorSuppressedUnlessStrict ==
    Len(LoadCalls) = 2 =>
        /\ (LoadCalls[2].out = "error" /\ LoadEntries[1].out = "True") =>
              /\ exc # "Exception"
              /\ pc # "failed"
              /\ Len(Warnings) = 1
              /\ Warnings[1].name = LoadCalls[2].name
        /\ (LoadCalls[2].out = "error" /\ LoadEntries[1].out = "False") =>
              /\ pc = "loaded"
              /\ exc = "Exception"
              /\ Len(Warnings) = 0
        /\ LoadCalls[2].out = "notfound" =>
              /\ exc # "Exception"
              /\ pc # "failed"
              /\ Len(Warnings) = 0

\* C12 happens: initialize() meets an app-specific source that fails to load,
\* warns and completes
AppErrorSuppressedUnlessStrictWitness ==
    /\ Resolved
    /\ Len(LoadCalls) = 2
    /\ LoadCalls[2].out = "error"
    /\ LoadEntries[1].out = "True"
    /\ Len(Warnings) = 1
    /\ pc = "initialized"

\* start() has run to one of its ends
StartDone == pc \in {"started", "returned", "raised", "execed", "prompting"}

\* C13 as stated: once initialize() has taken the continue-as-primary path,
\* start() hands off to nothing, generates no default config and returns
\* normally, whatever the loaded config files contained.
ContinueOutcomeIsFinal ==
    (Resolved /\ StartDone)
    => /\ ExecCalls = 0
       /\ SubappStarts = 0
       /\ WriteDefaultConfigCalls = 0
       /\ pc \in {"started", "returned"}
       /\ exc = ""

\* the config_file value load_config_file() reads at line 184: what the
\* config at entry assigns, overridden by what a loaded base source assigns
ConfigFileAtAppStep ==
    IF LoadCalls[1].out = "found"
    THEN Merge(LoadEntries[1].cfg, LoadCalls[1].cfg)["config_file"]
    ELSE LoadEntries[1].cfg["config_file"]

\* C14: when an explicit config-file path is set as load_config_file()
\* reaches the app-specific step, there is exactly one app-specific load; it
\* looks in one directory only and under a plain file name, and directory
\* and file name joined give back the explicit path, so the search path and
\* the default name '<app>_config' play no part in it.
ExplicitConfigFileOverridesSearch ==
    (Len(LoadCalls) >= 1 /\ LoadCalls[1].out # "error"
        /\ ConfigFileAtAppStep # {})
    => /\ Len(LoadCalls) = 2
       /\ Len(LoadCalls[2].args) = 1
       /\ Find(LoadCalls[2].name, "/") = 0
       /\ \A f \in ConfigFileAtAppStep :
             PathJoin(LoadCalls[2].args[1], LoadCalls[2].name) = f
       /\ \A i \in 1..Len(LoadCalls) :
             LoadCalls[i].name = ConfigFileNameDefault(name)
             => \/ LoadCalls[i].args # ConfigFilePaths(provider_path, config_dir, cwd)
                \/ i = 1

\* C14 happens: my-app is started with --config=/opt/conf/jupyter_config and
\* loads jupyter_config from /opt/conf alone
ExplicitConfigFileOverridesSearchWitness ==
    /\ Resolved
    /\ name = "my-app"
    /\ ConfigFileAtAppStep = {"/opt/conf/jupyter_config"}
    /\ Len(LoadCalls) = 2
    /\ LoadCalls[2].args = <<"/opt/conf">>
    /\ LoadCalls[2].name = "jupyter_config"

\* the calls of the migration routine so far
MigrateCalls == SelectSeq(calls, LAMBDA c : c.op = "migrate")

\* the marker file of config_dir
Marker == PathJoin(config_dir, "migrated")

\* C15: the step of initialize() that runs migrate_config() invokes the
\* migration routine exactly when, before the step, the marker is absent from
\* config_dir and the legacy directory exists; the routine is invoked at most
\* once, and by no other step; a marker that exists is kept as it is, and the
\* marker appears only where the routine was invoked and returned.
MigrationTrigger ==
    [][ /\ Len(MigrateCalls') <= 1
        /\ MigrateConfigCalls' <= 1
        /\ IF MigrateConfigCalls' = MigrateConfigCalls + 1
           THEN /\ Len(MigrateCalls') = 1
                      <=> (Marker \notin DOMAIN files /\ ipdir_exists)
                /\ Marker \in DOMAIN files =>
                      (Marker \in DOMAIN files' /\ files'[Marker] = files[Marker])
                /\ (Marker \in DOMAIN files' /\ Marker \notin DOMAIN files) =>
                      (Len(MigrateCalls') = 1 /\ MigrateCalls'[1].out = "ok")
           ELSE /\ MigrateCalls' = MigrateCalls
                /\ (Marker \in DOMAIN files') = (Marker \in DOMAIN files)
      ]_vars

\* C15 happens: initialize() found no marker and a legacy directory and
\* invoked the migration routine once
MigrationTriggerWitness ==
    /\ pc = "initialized"
    /\ MigrateConfigCalls = 1
    /\ ipdir_exists
    /\ Len(MigrateCalls) = 1
    /\ MigrateCalls[1].out = "ok"

\* C16 as stated: a migration routine that fails during initialize() does
\* not block startup; the config files are still loaded and the command-line
\* snapshot is still re-applied.
MigrationFailureNonFatal ==
    (Len(MigrateCalls) = 1 /\ MigrateCalls[1].out = "raise")
    => /\ pc # "failed"
       /\ exc = ""
       /\ LoadConfigFileCalls = 1
       /\ Resolved

\* the sequence s holds no element twice
NoDup(s) == \A i, j \in 1..Len(s) : s[i] = s[j] => i = j

\* how many times x occurs in s
Occurrences(s, x) == Cardinality({i \in 1..Len(s) : s[i] = x})

\* C17 as stated: for a provider path without duplicates, config_file_paths
\* holds no directory more than once, whatever config_dir and the working
\* directory are.
SearchPathHasNoDuplicates ==
    (pc = "paths_read" /\ NoDup(provider_path)) => NoDup(search_path)

\* C17, amended: for a provider path without duplicates, config_file_paths
\* holds no directory more than once after its first entry; the working
\* directory, prepended unconditionally, occurs twice when it equals
\* config_dir or a provider entry and once otherwise.
SearchPathDuplicatesOnlyCwd ==
    (pc = "paths_read" /\ NoDup(provider_path))
    => /\ NoDup(Tail(search_path))
       /\ Occurrences(search_path, cwd)
             = IF cwd = config_dir \/ InSeq(cwd, provider_path) THEN 2 ELSE 1

\* C17 happens: the working directory is config_dir, which the provider does
\* not list, and the path read holds it twice
SearchPathDuplicatesOnlyCwdWitness ==
    /\ pc = "paths_read"
    /\ NoDup(provider_path)
    /\ Len(provider_path) = 2
    /\ cwd = config_dir
    /\ ~InSeq(config_dir, provider_path)
    /\ Occurrences(search_path, cwd) = 2

\* C18: config_dir is always a member of config_file_paths; when the provider
\* path does not contain it, it stands directly after the working directory
\* and ahead of the provider entries, which follow unchanged; when the
\* provider path contains it, nothing is inserted and the provider entries
\* follow the working directory in their own order.
ConfigDirAlwaysMember ==
    pc = "paths_read"
    => /\ InSeq(config_dir, search_path)
       /\ search_path[1] = cwd
       /\ IF InSeq(config_dir, provider_path)
          THEN Tail(search_path) = provider_path
          ELSE /\ search_path[2] = config_dir
               /\ SubSeq(search_path, 3, Len(search_path)) = provider_path

\* C18 happens: config_dir is missing from a provider path of two entries
\* and is put in front of them
ConfigDirAlwaysMemberWitness ==
    /\ pc = "paths_read"
    /\ Len(provider_path) = 2
    /\ ~InSeq(config_dir, provider_path)
    /\ cwd # config_dir
    /\ search_path[2] = config_dir
    /\ Len(search_path) = 4

\* the position of the first call of op in the call log (0 if there is none)
Pos(op) ==
    IF CountCalls(calls, op) = 0 THEN 0
    ELSE CHOOSE i \in 1..Len(calls) :
            calls[i].op = op /\ \A j \in 1..(i - 1) : calls[j].op # op

\* the position of the last call of op in the call log (0 if there is none)
LastPos(op) ==
    IF CountCalls(calls, op) = 0 THEN 0
    ELSE CHOOSE i \in 1..Len(calls) :
            calls[i].op = op /\ \A j \in (i + 1)..Len(calls) : calls[j].op # op

\* C19: where initialize() completed on the continue-as-primary path, the
\* command line was parsed before the migration trigger, the migration
\* trigger (and the migration routine, if invoked) came before
\* load_config_file(), the base load before the app-specific load, and the
\* re-application of the snapshot after all of them; the snapshot re-applied
\* is the one captured after parsing: the configuration the command line
\* gives, with nothing from the files in it.
InitializeOrder ==
    Resolved
    => /\ 0 < Pos("parse_command_line")
       /\ Pos("parse_command_line") < Pos("migrate_config")
       /\ LastPos("migrate_config") < Pos("load_config_file")
       /\ Len(MigrateCalls) > 0 =>
             /\ Pos("migrate_config") < Pos("migrate")
             /\ LastPos("migrate") < Pos("load_config_file")
       /\ Pos("load_config_file") < Pos("Application.load_config_file")
       /\ LoadCalls[1].name = base_config
       /\ LastPos("Application.load_config_file") < Pos("update_config")
       /\ LastPos("log.warn") < Pos("update_config")
       /\ LastPos("parse_command_line") < Pos("update_config")
       /\ pc = "initialized" => Pos("update_config") = Len(calls)
       /\ calls[Pos("update_config")].cfg = cl_config
       /\ cl_config = ParseCommandLine(argv).config

\* C19 happens: initialize() parsed a command line that assigns a value,
\* invoked the migration routine, loaded a base and an app-specific source
\* that assign values, and re-applied the snapshot
InitializeOrderWitness ==
    /\ pc = "initialized"
    /\ Resolved
    /\ cl_config # EmptyConfig
    /\ Len(MigrateCalls) = 1
    /\ Len(LoadCalls) = 2
    /\ LoadCalls[1].out = "found"
    /\ LoadCalls[2].out = "found"
    /\ config # cl_config

\* the first letter of the typed line is one of the given letters
FirstLetterIn(typed, letters) ==
    Len(typed) >= 1 /\ SubSeq(typed, 1, 1) \in letters

\* the step is a round of the prompt loop
IsPromptRound == pc = "prompting" /\ Len(Inputs') = Len(Inputs) + 1

\* the input call the step adds to the call log
NewInput == Inputs'[Len(Inputs')]

\* the only change the step makes to the files is the default config
\* written to the target
TargetWritten ==
    /\ DefaultConfigTarget(traits, config_dir) \in DOMAIN files'
    /\ files'[DefaultConfigTarget(traits, config_dir)] = DefaultConfigText
    /\ \A f \in DOMAIN files \ {DefaultConfigTarget(traits, config_dir)} :
          f \in DOMAIN files' /\ files'[f] = files[f]
    /\ CountCalls(calls', "write") = CountCalls(calls, "write") + 1

\* the step prints the guidance message and stays in the loop, writing nothing
Reprompted ==
    /\ pc' = "prompting"
    /\ guidance' = guidance + 1
    /\ files' = files
    /\ CountCalls(calls', "write") = CountCalls(calls, "write")

\* the step ends the loop without writing
LoopEndedWithoutWrite ==
    /\ pc' # "prompting"
    /\ guidance' = guidance
    /\ files' = files
    /\ CountCalls(calls', "write") = CountCalls(calls, "write")

\* C20 as stated: in every round of the prompt loop that is answered, an
\* answer whose first letter is 'y' or 'Y' ends the loop and the file is
\* written, an answer whose first letter is 'n' or 'N' ends the loop with
\* nothing written, and every other answer prints the guidance message and
\* re-prompts with nothing written.
EveryOtherAnswerReprompts ==
    [][ (IsPromptRound /\ NewInput.name # "KeyboardInterrupt") =>
            IF FirstLetterIn(NewInput.out, {"y", "Y"})
            THEN pc' # "prompting" /\ guidance' = guidance /\ TargetWritten
            ELSE IF FirstLetterIn(NewInput.out, {"n", "N"})
            THEN LoopEndedWithoutWrite
            ELSE Reprompted
      ]_vars

\* C20, amended: in every round of the prompt loop, an answer whose first
\* letter is 'y' or 'Y' ends the loop and the file is written; an answer whose
\* first letter is 'n' or 'N', an empty answer and an interrupt end the loop
\* with nothing written; every other answer prints the guidance message and
\* re-prompts with nothing written; no step outside such a round of the loop
\* writes the file while the prompt is pending; and a pending prompt that
\* gets one of the ending answers within the bound of rounds is left.
PromptLoop ==
    /\ [][ /\ IsPromptRound =>
                IF NewInput.name = "KeyboardInterrupt"
                THEN LoopEndedWithoutWrite
                ELSE IF FirstLetterIn(NewInput.out, {"y", "Y"})
                THEN pc' # "prompting" /\ guidance' = guidance /\ TargetWritten
                ELSE IF FirstLetterIn(NewInput.out, {"n", "N"}) \/ NewInput.out = ""
                THEN LoopEndedWithoutWrite
                ELSE Reprompted
           /\ (pc = "prompting" /\ ~IsPromptRound) =>
                (pc' = "prompting" /\ files' = files)
         ]_vars
    /\ (pc = "prompting") ~> (pc # "prompting")

\* C20 happens: the prompt was answered "maybe" and then "YES"; the guidance
\* was printed once and the file was written after the second answer
PromptLoopWitness ==
    /\ pc = "raised"
    /\ Len(Inputs) = 2
    /\ Inputs[1].out = "maybe"
    /\ Inputs[2].out = "YES"
    /\ guidance = 1
    /\ CountCalls(calls, "write") = 1
    /\ files[DefaultConfigTarget(traits, config_dir)] = DefaultConfigText

====
